---------------------------- MODULE Spec2Model ----------------------------
(***************************************************************************)
(* A model of the Lorentz-transformation visualiser: the Dash application  *)
(* (src/dash_lorentz.py), the Streamlit application                         *)
(* (src/lorentz_visualizer.py) and the coordinate transform they share.     *)
(*                                                                         *)
(* Numbers.  A velocity is an integer number of hundredths of c (the        *)
(* sliders step by 0.01), so v = p/100.  A coordinate is a record           *)
(*   [cls, g, n, d]                                                         *)
(* cls = "fin": the real number gamma^g * n/d, with g in {0,1}, d > 0,      *)
(*              n/d in lowest terms, and gamma the Lorentz factor of the    *)
(*              velocity the value was computed with; gamma^2 is the        *)
(*              rational 10000/(10000 - p^2), and gamma itself is folded    *)
(*              into n/d whenever it is rational (p = 0, 28, 60, 80, 96);   *)
(* cls = "inf": the IEEE infinity of sign n;  cls = "nan": IEEE NaN.        *)
(***************************************************************************)
EXTENDS Integers, Sequences, FiniteSets

VARIABLES
  \* ---- Dash application (src/dash_lorentz.py) ----
  dVelocity,    \* 'velocity-slider'.value, hundredths of c
  dClick,       \* 'lorentz-graph'.clickData: <<>> (None) or <<x, y>> in tenths
  dColor,       \* 'point-color'.value
  dSize,        \* 'point-size'.value
  dStore,       \* 'points-storage'.data, as the JSON the browser holds
  dFigure,      \* 'lorentz-graph'.figure, the result of the last update_graph
  dTrigger,     \* the input whose change fired the last update_graph
  dBefore,      \* the store's value when the last update_graph began (observer)
  \* ---- Streamlit application (src/lorentz_visualizer.py) ----
  sMode,        \* the mode selectbox of the last script run
  sPoints,      \* st.session_state['points']
  sRun,         \* the widget values and the outcome of the last script run
  sFrame,       \* plot_data handed to st.plotly_chart by the last run
  \* ---- direct calls of the transform functions ----
  tPc, tArgs, tRes, tBack

dashVars == <<dVelocity, dClick, dColor, dSize, dStore, dFigure, dTrigger, dBefore>>
stVars == <<sMode, sPoints, sRun, sFrame>>
trVars == <<tPc, tArgs, tRes, tBack>>
vars == <<dashVars, stVars, trVars>>

-----------------------------------------------------------------------------
\* Bounds of the model.
MaxCoord == 2        \* direct calls draw t, x, y from -MaxCoord..MaxCoord
MaxStore == 2        \* the Dash store holds at most this many points
MaxPoints == 2       \* the Streamlit session holds at most this many points

-----------------------------------------------------------------------------
\* Exact arithmetic on coordinates.

Abs(n) == IF n < 0 THEN -n ELSE n

RECURSIVE GCD(_, _)
GCD(a, b) == IF b = 0 THEN a ELSE GCD(b, a % b)

\* The rational n/d (d # 0) times gamma^g, in lowest terms.
Fin(g, n, d) ==
  LET k == GCD(Abs(n), Abs(d))
      s == IF d < 0 THEN -1 ELSE 1
  IN  IF n = 0
      THEN [cls |-> "fin", g |-> 0, n |-> 0, d |-> 1]
      ELSE [cls |-> "fin", g |-> g, n |-> (s * n) \div k, d |-> (s * d) \div k]

Rat(n, d) == Fin(0, n, d)
Inf(sign) == [cls |-> "inf", g |-> 0, n |-> sign, d |-> 1]
NaN == [cls |-> "nan", g |-> 0, n |-> 0, d |-> 1]
IsFinite(a) == a.cls = "fin"
Sign(a) == IF a.n > 0 THEN 1 ELSE IF a.n < 0 THEN -1 ELSE 0
\* -a
Neg(a) == [a EXCEPT !.n = -a.n]

\* a * (n/d) for a rational n/d, as IEEE arithmetic treats the special values.
\* The result of Sub is an intermediate value, not yet in lowest terms;
\* MulGamma reduces it before it multiplies.
Scale(a, n, d) ==
  CASE a.cls = "nan" -> NaN
    [] a.cls = "inf" -> IF n = 0 THEN NaN ELSE Inf(a.n * (IF n * d > 0 THEN 1 ELSE -1))
    [] OTHER -> Fin(a.g, a.n * n, a.d * d)

\* a - b; two finite non-zero operands carry the same power of gamma.
Sub(a, b) ==
  CASE a.cls = "nan" \/ b.cls = "nan" -> NaN
    [] a.cls = "inf" /\ b.cls = "inf" -> IF a.n = b.n THEN NaN ELSE a
    [] a.cls = "inf" -> a
    [] b.cls = "inf" -> Inf(-b.n)
    [] b.n = 0 -> a
    [] a.n = 0 -> [cls |-> "fin", g |-> b.g, n |-> -b.n, d |-> b.d]
    [] OTHER -> [cls |-> "fin", g |-> a.g, n |-> a.n * b.d - b.n * a.d, d |-> a.d * b.d]

\* The largest s in lo..hi with s * s <= m, by bisection (lo * lo <= m).
RECURSIVE FloorSqrt(_, _, _)
FloorSqrt(m, lo, hi) ==
  IF lo = hi THEN lo
  ELSE LET mid == (lo + hi + 1) \div 2
       IN  IF mid * mid <= m THEN FloorSqrt(m, mid, hi) ELSE FloorSqrt(m, lo, mid - 1)

\* gamma = 1 / np.sqrt(w / 10000), where w = 10000 * (1 - v**2) is an integer:
\* np.sqrt of a negative number is NaN and 1 / 0.0 on a numpy float is inf,
\* each with a RuntimeWarning and no exception.  A finite gamma is 100/s when
\* w = s * s ("rat"), and irrational otherwise ("irr").
Gamma(w) ==
  CASE w < 0 -> [kind |-> "nan", s |-> 0, w |-> w]
    [] w = 0 -> [kind |-> "inf", s |-> 0, w |-> w]
    [] OTHER -> LET s == FloorSqrt(w, 0, 100)
                IN  IF s * s = w THEN [kind |-> "rat", s |-> s, w |-> w]
                                 ELSE [kind |-> "irr", s |-> 0, w |-> w]

\* gamma * a
MulGamma(gamma, a) ==
  CASE gamma.kind = "nan" \/ a.cls = "nan" -> NaN
    [] gamma.kind = "inf" -> IF Sign(a) = 0 THEN NaN ELSE Inf(Sign(a))
    [] a.cls = "inf" -> a
    [] gamma.kind = "rat" -> LET b == Fin(a.g, a.n, a.d)
                             IN  Fin(b.g, b.n * 100, b.d * gamma.s)
    [] a.g = 0 -> Fin(1, a.n, a.d)
    [] OTHER -> LET b == Fin(a.g, a.n, a.d)
                IN  Fin(0, b.n * 10000, b.d * gamma.w)

-----------------------------------------------------------------------------
\* The transform functions.  v, v_x, v_y are hundredths of c; t, x, y are
\* scalars here, and the callers apply the functions element by element where
\* the code passes arrays.

lorentz_transform_signslip(t, x, v) ==
  LET gamma == Gamma(10000 - v * v)
  IN  [out |-> "return",
       t |-> MulGamma(gamma, Sub(t, Scale(x, -v, 100))),
       x |-> MulGamma(gamma, Sub(x, Scale(t, v, 100)))]

lorentz_transform(t, x, v) ==
  LET gamma == Gamma(10000 - v * v)
  IN  [out |-> "return",
       t |-> MulGamma(gamma, Sub(t, Scale(x, v, 100))),
       x |-> MulGamma(gamma, Sub(x, Scale(t, v, 100)))]

lorentz_transform_3d(t, x, y, v_x, v_y) ==
  LET gamma == Gamma(10000 - (v_x * v_x + v_y * v_y))
  IN  [out |-> "return",
       t |-> MulGamma(gamma, Sub(Sub(t, Scale(x, v_x, 100)), Scale(y, v_y, 100))),
       x |-> MulGamma(gamma, Sub(x, Scale(t, v_x, 100))),
       y |-> MulGamma(gamma, Sub(y, Scale(t, v_y, 100)))]

-----------------------------------------------------------------------------
\* Direct calls of the transform functions, on inputs drawn at Init.

Coords == {Rat(k, 2) : k \in -MaxCoord..MaxCoord}
TrVelocities == {-120, -100, -99, -60, 0, 50, 60, 99, 100}
TrVelocitiesY == {0, 30, 80}

NoResult == [out |-> "none", t |-> NaN, x |-> NaN]

TrIdle ==
  /\ tPc = "idle"
  /\ tArgs = [t |-> Rat(0, 1), x |-> Rat(0, 1), y |-> Rat(0, 1), v |-> 0, v_y |-> 0]
  /\ tRes = NoResult
  /\ tBack = NoResult

TrInit ==
  /\ tPc = "init"
  /\ tArgs \in [t : Coords, x : Coords, y : Coords, v : TrVelocities, v_y : TrVelocitiesY]
  /\ tRes = NoResult
  /\ tBack = NoResult

\* lorentz_transform(t, x, v)
Call2D ==
  /\ tPc = "init"
  /\ tRes' = lorentz_transform(tArgs.t, tArgs.x, tArgs.v)
  /\ tPc' = "called2d"
  /\ UNCHANGED <<tArgs, tBack, dashVars, stVars>>

\* lorentz_transform(*lorentz_transform(t, x, v), -v)
CallBack2D ==
  /\ tPc = "called2d"
  /\ tBack' = lorentz_transform(tRes.t, tRes.x, -tArgs.v)
  /\ tPc' = "back2d"
  /\ UNCHANGED <<tArgs, tRes, dashVars, stVars>>

\* lorentz_transform_3d(t, x, y, v_x, v_y)
Call3D ==
  /\ tPc = "init"
  /\ tRes' = lorentz_transform_3d(tArgs.t, tArgs.x, tArgs.y, tArgs.v, tArgs.v_y)
  /\ tPc' = "called3d"
  /\ UNCHANGED <<tArgs, tBack, dashVars, stVars>>

-----------------------------------------------------------------------------
\* Helpers shared by the two applications.

\* np.linspace(-5, 5, 11): the integers -5 .. 5.
time_range == [i \in 1..11 |-> Rat(i - 6, 1)]
space_range == [i \in 1..11 |-> Rat(i - 6, 1)]

\* c * np.ones_like(range)
Ones(c, range) == [i \in DOMAIN range |-> c]

\* A plotly trace.  role names the part of the diagram the code builds it for;
\* size is the marker size (0 for a line); pts[i] is the pair (x[i], y[i]) of
\* the trace's x and y arrays.
Trace(role, mode, color, dash, size, pts) ==
  [role |-> role, mode |-> mode, color |-> color, dash |-> dash, size |-> size,
   pts |-> pts]

XY(x, y) == [x |-> x, y |-> y]

\* go.Scatter(x=x_transformed, y=t_transformed, mode='lines', line=dict(color=...))
\* of lorentz_transform applied element-wise to the arrays ts, xs.
TransformedLine(role, color, ts, xs, v) ==
  Trace(role, "lines", color, "solid", 0,
        [i \in DOMAIN xs |-> LET r == lorentz_transform(ts[i], xs[i], v)
                             IN  XY(r.x, r.t)])

\* The red lines of constant t, then the blue lines of constant x.
TransformedGrid(v) ==
  [i \in 1..11 |-> TransformedLine("time-line", "red",
                                   Ones(time_range[i], space_range), space_range, v)]
  \o
  [i \in 1..11 |-> TransformedLine("space-line", "blue",
                                   time_range, Ones(space_range[i], time_range), v)]

-----------------------------------------------------------------------------
\* The Dash application, src/dash_lorentz.py.

\* Constant background grid in light gray (untransformed).
ReferenceGrid ==
  [i \in 1..11 |-> Trace("reference", "lines", "lightgray", "solid", 0,
                         [j \in 1..11 |-> XY(space_range[j], time_range[i])])]
  \o
  [i \in 1..11 |-> Trace("reference", "lines", "lightgray", "solid", 0,
                         [j \in 1..11 |-> XY(space_range[i], time_range[j])])]

\* time_values = np.linspace(-5, 5, 100)
time_values == [i \in 1..100 |-> Rat(-495 + 10 * (i - 1), 99)]

LightConesOnlyOne ==
  <<Trace("light-cone", "lines", "green", "dash", 0,
          [i \in 1..100 |-> XY(time_values[i], time_values[i])])>>

\* Add light cones: x = t and x = -t, not passed through lorentz_transform.
LightCones ==
  <<Trace("light-cone", "lines", "green", "dash", 0,
          [i \in 1..100 |-> XY(time_values[i], time_values[i])]),
    Trace("light-cone", "lines", "green", "dash", 0,
          [i \in 1..100 |-> XY(time_values[i], Neg(time_values[i]))])>>

\* Plot each transformed point: for x_point, t_point in points.
PointMarkers(velocity, points, color, size) ==
  [i \in DOMAIN points |->
     LET r == lorentz_transform(Rat(points[i].y, 1), Rat(points[i].x, 1), velocity)
     IN  Trace("marker", "markers", color, "solid", size, <<XY(r.x, r.t)>>)]

create_figure(velocity, points, color, size) ==
  ReferenceGrid \o TransformedGrid(velocity) \o LightCones
    \o PointMarkers(velocity, points, color, size)

\* Python's round() of n10/10: to the nearest integer, a tie to the even one.
Round(n10) ==
  LET q == n10 \div 10
      r == n10 % 10
  IN  IF r < 5 THEN q
      ELSE IF r > 5 THEN q + 1
      ELSE IF q % 2 = 0 THEN q ELSE q + 1

\* A point as Python holds it: a tuple built by the callback, or the list a
\* JSON array decodes to.  A tuple never equals a list.
PyTuple(x, y) == [py |-> "tuple", x |-> x, y |-> y]
PyList(x, y) == [py |-> "list", x |-> x, y |-> y]

\* clicked_point in points
Contains(points, p) == \E i \in DOMAIN points : points[i] = p

\* points.remove(clicked_point): the first equal element goes.
Remove(points, p) ==
  LET k == CHOOSE i \in DOMAIN points :
             points[i] = p /\ \A j \in 1..(i - 1) : points[j] # p
  IN  [i \in 1..(Len(points) - 1) |-> IF i < k THEN points[i] ELSE points[i + 1]]

\* The value of the points-storage store after the callback returns `points`:
\* the browser keeps its JSON encoding and the next callback gets that decoded,
\* so every point comes back as a list.
StoreRoundTrip(points) ==
  [i \in DOMAIN points |-> PyList(points[i].x, points[i].y)]

\* The grid intersection a click snaps to.
Snap(click_data) == <<Round(click_data[1]), Round(click_data[2])>>

\* The point list update_graph returns (its second output).
ToggleClicked(click_data, points) ==
  IF click_data # <<>>
  THEN LET clicked_point == PyTuple(Round(click_data[1]), Round(click_data[2]))
       IN  IF Contains(points, clicked_point)
           THEN Remove(points, clicked_point)
           ELSE Append(points, clicked_point)
  ELSE points

\* One invocation of the callback, fired by a change of the input `trigger`.
update_graph(trigger, velocity, click_data, color, size) ==
  LET points == ToggleClicked(click_data, dStore)
  IN  /\ Len(points) <= MaxStore
      /\ dVelocity' = velocity
      /\ dClick' = click_data
      /\ dColor' = color
      /\ dSize' = size
      /\ dFigure' = create_figure(velocity, points, color, size)
      /\ dStore' = StoreRoundTrip(points)
      /\ dTrigger' = trigger
      /\ dBefore' = dStore
      /\ UNCHANGED <<stVars, trVars>>

DashVelocities == {-99, 0, 50}
ClickXs == {9, 11, 15}
ClickYs == {20, 25}
DashColors == {"purple", "orange"}
DashSizes == {8, 12}

DashInit ==
  /\ dVelocity = 50
  /\ dClick = <<>>
  /\ dColor = "purple"
  /\ dSize = 8
  /\ dStore = <<>>
  /\ dFigure = <<>>
  /\ dTrigger = "none"
  /\ dBefore = <<>>

\* The callback Dash fires once when the page loads, with the layout's values.
PageLoad ==
  /\ dTrigger = "none"
  /\ update_graph("load", dVelocity, dClick, dColor, dSize)

MoveSlider ==
  /\ dTrigger # "none"
  /\ \E v \in DashVelocities \ {dVelocity} :
       update_graph("velocity-slider", v, dClick, dColor, dSize)

\* A click on the graph sets clickData; a click that leaves clickData as it
\* is changes no property and fires nothing.
ClickGraph ==
  /\ dTrigger # "none"
  /\ \E cx \in ClickXs, cy \in ClickYs :
       /\ <<cx, cy>> # dClick
       /\ update_graph("clickData", dVelocity, <<cx, cy>>, dColor, dSize)

SetColor ==
  /\ dTrigger # "none"
  /\ \E c \in DashColors \ {dColor} :
       update_graph("point-color", dVelocity, dClick, c, dSize)

SetSize ==
  /\ dTrigger # "none"
  /\ \E z \in DashSizes \ {dSize} :
       update_graph("point-size", dVelocity, dClick, dColor, z)

DashNext == PageLoad \/ MoveSlider \/ ClickGraph \/ SetColor \/ SetSize

-----------------------------------------------------------------------------
\* The Streamlit application, src/lorentz_visualizer.py.  Every interaction
\* reruns the whole script; st.session_state['points'] is all that survives.

\* velocity = velocity_input if velocity_input != velocity_slider else velocity_slider
Resolve(slider, input) == IF input # slider THEN input ELSE slider

generate_grid_lines_2d(velocity) == TransformedGrid(velocity)

\* np.linspace(-5, 5, 6): -5, -3, .., 5.
range_3d == [i \in 1..6 |-> Rat(2 * i - 7, 1)]

\* go.Scatter3d(x=x_transformed, y=y_transformed, z=t_transformed, mode='lines', ..)
\* of lorentz_transform_3d applied element-wise; pts[i] is (x[i], y[i], z[i]).
TransformedLine3D(color, ts, xs, ys, v_x, v_y) ==
  [role |-> "grid-3d", mode |-> "lines", color |-> color, dash |-> "solid", size |-> 0,
   pts |-> [i \in DOMAIN ts |->
              LET r == lorentz_transform_3d(ts[i], xs[i], ys[i], v_x, v_y)
              IN  [x |-> r.x, y |-> r.y, z |-> r.t]]]

\* Three nested loops of 36 lines each: red along x, blue along y, green along t.
generate_grid_lines_3d(v_x, v_y) ==
  [k \in 1..36 |->
     LET t == range_3d[((k - 1) \div 6) + 1]
         y == range_3d[((k - 1) % 6) + 1]
     IN  TransformedLine3D("red", Ones(t, range_3d), range_3d, Ones(y, range_3d), v_x, v_y)]
  \o
  [k \in 1..36 |->
     LET t == range_3d[((k - 1) \div 6) + 1]
         x == range_3d[((k - 1) % 6) + 1]
     IN  TransformedLine3D("blue", Ones(t, range_3d), Ones(x, range_3d), range_3d, v_x, v_y)]
  \o
  [k \in 1..36 |->
     LET x == range_3d[((k - 1) \div 6) + 1]
         y == range_3d[((k - 1) % 6) + 1]
     IN  TransformedLine3D("green", range_3d, Ones(x, range_3d), Ones(y, range_3d), v_x, v_y)]

\* new_point in st.session_state['points']: tuples of different lengths differ.
InPoints(points, p) ==
  \E i \in DOMAIN points : Len(points[i]) = Len(p) /\ points[i] = p

\* if st.sidebar.button("Add Point"): if new_point not in points: points.append(new_point)
AddPoint(points, pressed, new_point) ==
  IF pressed /\ ~InPoints(points, new_point) THEN Append(points, new_point) ELSE points

\* [p for p in st.session_state['points'] if len(p) == n]
RECURSIVE OfLength(_, _)
OfLength(points, n) ==
  IF points = <<>> THEN <<>>
  ELSE IF Len(Head(points)) = n
       THEN <<Head(points)>> \o OfLength(Tail(points), n)
       ELSE OfLength(Tail(points), n)

Markers2DUnfiltered(points, velocity) ==
  [i \in DOMAIN points |->
     LET r == lorentz_transform(points[i][2], points[i][1], velocity)
     IN  Trace("marker", "markers", points[i][Len(points[i])], "solid", 10, <<XY(r.x, r.t)>>)]

\* for x_point, t_point, color in [p for p in points if len(p) == 3]: a marker each
Markers2D(points, velocity) ==
  LET sel == OfLength(points, 3)
  IN  [i \in DOMAIN sel |->
         LET r == lorentz_transform(sel[i][2], sel[i][1], velocity)
         IN  Trace("marker", "markers", sel[i][3], "solid", 10, <<XY(r.x, r.t)>>)]

\* for x_point, y_point, t_point, color in [p for p in points if len(p) == 4]
Markers3D(points, v_x, v_y) ==
  LET sel == OfLength(points, 4)
  IN  [i \in DOMAIN sel |->
         LET r == lorentz_transform_3d(sel[i][3], sel[i][1], sel[i][2], v_x, v_y)
         IN  [role |-> "marker", mode |-> "markers", color |-> sel[i][4],
              dash |-> "solid", size |-> 5,
              pts |-> <<[x |-> r.x, y |-> r.y, z |-> r.t]>>]]

\* The curve expressions the model enters, and what lambdify(x, sympify(expr),
\* modules=['numpy']) makes of each on one sample x:
\*   "x**2"       x squared;
\*   "1/(x - 5)"  finite except at the last sample x = 5.0, where numpy divides
\*                by zero and returns inf with a RuntimeWarning, no exception;
\*   "x**"        sympify raises SympifyError (no sample is evaluated).
CurveExprs == {"", "x**2", "1/(x - 5)", "x**"}
Raises(expr) == expr = "x**"

CurveSample(expr, x) ==
  IF expr = "x**2" THEN Rat(x.n * x.n, x.d * x.d)
  ELSE IF x.n = 5 * x.d THEN Inf(1)
  ELSE Rat(x.d, x.n - 5 * x.d)

\* The curve plotting section: [error: st.error was called, trace: <<>> for
\* curve_trace = None, else <<curve_trace>>].  x_vals = np.linspace(-5, 5, 100).
CurveSection(enable_curve, curve_expr, velocity) ==
  IF ~enable_curve \/ curve_expr = ""
  THEN [error |-> FALSE, trace |-> <<>>]
  ELSE IF Raises(curve_expr)
  THEN [error |-> TRUE, trace |-> <<>>]
  ELSE [error |-> FALSE,
        trace |-> <<Trace("curve", "lines", "#FF00FF", "solid", 0,
                     [i \in 1..100 |->
                        LET r == lorentz_transform(
                                   CurveSample(curve_expr, time_values[i]),
                                   time_values[i], velocity)
                        IN  XY(r.x, r.t)])>>]

TooFastStrict(v_x, v_y) == v_x * v_x + v_y * v_y > 10000

\* velocity_magnitude = np.sqrt(v_x**2 + v_y**2); velocity_magnitude >= 1
TooFast(v_x, v_y) == v_x * v_x + v_y * v_y >= 10000

\* One run of the script in 2D mode.
script_run_2d(in) ==
  LET velocity == Resolve(in.slider, in.input)
      points == AddPoint(sPoints, in.add, <<in.x, in.t, in.color>>)
      curve == CurveSection(in.enable_curve, in.curve_expr, velocity)
  IN  /\ Len(points) <= MaxPoints
      /\ sMode' = "2D"
      /\ sPoints' = points
      /\ sFrame' = generate_grid_lines_2d(velocity) \o curve.trace
                     \o Markers2D(points, velocity)
      /\ sRun' = [in |-> in, velocity |-> <<velocity>>, stopped |-> FALSE,
                  errors |-> IF curve.error THEN {"curve"} ELSE {},
                  before |-> sPoints]
      /\ UNCHANGED <<dashVars, trVars>>

\* One run of the script in 3D mode.
script_run_3d(in) ==
  LET v_x == Resolve(in.slider, in.input)
      v_y == Resolve(in.slider_y, in.input_y)
      points == AddPoint(sPoints, in.add, <<in.x, in.y, in.t, in.color>>)
  IN  IF TooFast(v_x, v_y)
      THEN \* st.error(..); st.stop(): nothing below line 36 runs
           /\ sMode' = "3D"
           /\ sPoints' = sPoints
           /\ sFrame' = <<>>
           /\ sRun' = [in |-> in, velocity |-> <<v_x, v_y>>, stopped |-> TRUE,
                       errors |-> {"velocity"}, before |-> sPoints]
           /\ UNCHANGED <<dashVars, trVars>>
      ELSE /\ Len(points) <= MaxPoints
           /\ sMode' = "3D"
           /\ sPoints' = points
           /\ sFrame' = generate_grid_lines_3d(v_x, v_y) \o Markers3D(points, v_x, v_y)
           /\ sRun' = [in |-> in, velocity |-> <<v_x, v_y>>, stopped |-> FALSE,
                       errors |-> {}, before |-> sPoints]
           /\ UNCHANGED <<dashVars, trVars>>

\* The widget values the model enters.
Velocities2D == {[slider |-> 50, input |-> 50], [slider |-> 50, input |-> -99]}
Velocities3D == {[slider |-> 50, input |-> 50, slider_y |-> 0, input_y |-> 0],
                 [slider |-> 50, input |-> 60, slider_y |-> 0, input_y |-> 80],
                 [slider |-> 99, input |-> 99, slider_y |-> 0, input_y |-> 99]}
PointColors == {"#800080", "#ffa500"}
NoCurve == [enable_curve |-> FALSE, curve_expr |-> "x**2"]
CurveInputs == {NoCurve} \cup {[enable_curve |-> TRUE, curve_expr |-> e] : e \in CurveExprs}

\* The widgets' defaults: X-, Y- and T-coordinate at their minimum -5.0.
Input2D(vel, curve, add, x, t, color) ==
  [slider |-> vel.slider, input |-> vel.input, add |-> add,
   x |-> x, t |-> t, color |-> color,
   enable_curve |-> curve.enable_curve, curve_expr |-> curve.curve_expr]

Input3D(vel, add, x, y, t, color) ==
  [slider |-> vel.slider, input |-> vel.input,
   slider_y |-> vel.slider_y, input_y |-> vel.input_y,
   add |-> add, x |-> x, y |-> y, t |-> t, color |-> color]

StInit ==
  /\ sMode = "2D"
  /\ sPoints = <<>>
  /\ sFrame = <<>>
  /\ sRun = [in |-> Input2D([slider |-> 50, input |-> 50], NoCurve, FALSE,
                            Rat(-5, 1), Rat(-5, 1), "#800080"),
             velocity |-> <<50>>, stopped |-> FALSE, errors |-> {}, before |-> <<>>]

\* A rerun in 2D mode caused by the mode selectbox or a velocity widget.
Rerun2D ==
  \E vel \in Velocities2D :
    script_run_2d(Input2D(vel, NoCurve, FALSE, Rat(1, 1), Rat(2, 1), "#800080"))

\* The 'Add Point' button pressed in 2D mode.
AddPoint2D ==
  \E vel \in Velocities2D, color \in PointColors :
    script_run_2d(Input2D(vel, NoCurve, TRUE, Rat(1, 1), Rat(2, 1), color))

\* A rerun in 3D mode caused by the mode selectbox or a velocity widget.
Rerun3D ==
  \E vel \in Velocities3D :
    script_run_3d(Input3D(vel, FALSE, Rat(1, 1), Rat(0, 1), Rat(2, 1), "#800080"))

\* The 'Add Point' button pressed in 3D mode.
AddPoint3D ==
  \E vel \in Velocities3D, color \in PointColors :
    script_run_3d(Input3D(vel, TRUE, Rat(1, 1), Rat(0, 1), Rat(2, 1), color))

\* A rerun in 2D mode caused by the curve checkbox or the expression field.
RerunCurve ==
  \E vel \in Velocities2D, curve \in CurveInputs :
    script_run_2d(Input2D(vel, curve, FALSE, Rat(1, 1), Rat(2, 1), "#800080"))

\* 'Add Point' pressed in 2D mode while the curve widgets hold `curve`.
AddPointCurve ==
  \E vel \in Velocities2D, curve \in CurveInputs, color \in PointColors :
    script_run_2d(Input2D(vel, curve, TRUE, Rat(1, 1), Rat(2, 1), color))

StNext == Rerun2D \/ AddPoint2D \/ Rerun3D \/ AddPoint3D
CurveNext == RerunCurve \/ AddPointCurve

-----------------------------------------------------------------------------
\* Specifications: each application alone, the others idle.

TrNext == Call2D \/ Call3D \/ CallBack2D

\* The functions called directly, both applications at rest.
InitTransform == TrInit /\ DashInit /\ StInit

SpecTransform == InitTransform /\ [][TrNext]_vars

\* The Dash application after app.layout is built.
InitDash == DashInit /\ StInit /\ TrIdle

SpecDash == InitDash /\ [][DashNext]_vars

\* The Streamlit session before its first script run.
InitStreamlit == StInit /\ DashInit /\ TrIdle

SpecStreamlit == InitStreamlit /\ [][StNext]_vars

SpecCurve == InitStreamlit /\ [][CurveNext]_vars

-----------------------------------------------------------------------------
\* Claims about the Dash application (SpecDash).

\* C1: two consecutive clicks that snap to the same grid intersection, each
\* handled by its own update_graph invocation fed the store the previous one
\* returned, leave the stored point list as it was before the first click.
C1_TogglePairRestores ==
  [][(dTrigger = "clickData" /\ dTrigger' = "clickData" /\ Snap(dClick') = Snap(dClick))
       => dStore' = dBefore]_vars

\* C3: an update_graph invocation fired by the velocity slider, the point
\* colour or the point size returns the stored point list unchanged.
C3_OnlyClicksMutate ==
  [][dTrigger' \in {"velocity-slider", "point-color", "point-size"}
       => dStore' = dStore]_vars

\* The number of traces of a frame built for the part `role` of the diagram.
RoleCount(frame, role) == Cardinality({i \in DOMAIN frame : frame[i].role = role})

\* The marker the figure must show for the stored point p.
MarkerOf(p, velocity) ==
  LET r == lorentz_transform(Rat(p.y, 1), Rat(p.x, 1), velocity)
  IN  <<XY(r.x, r.t)>>

-----------------------------------------------------------------------------
\* Claims about the Streamlit application (SpecStreamlit, SpecCurve).

\* The coordinates of a registry entry: all but its colour.
Coordinates(p) == SubSeq(p, 1, Len(p) - 1)

\* C2: the registry never holds two entries with the same coordinates.
C2_NoDuplicateGeometry ==
  \A i, j \in DOMAIN sPoints :
    (i # j /\ Len(sPoints[i]) = Len(sPoints[j]))
      => Coordinates(sPoints[i]) # Coordinates(sPoints[j])

RunVx == Resolve(sRun.in.slider, sRun.in.input)
RunVy == Resolve(sRun.in.slider_y, sRun.in.input_y)

\* C5: a run that builds any grid line or marker has |v| < 1 (2D) or
\* vx^2 + vy^2 < 1 (3D); a 3D run with vx^2 + vy^2 >= 1 reports the error,
\* stops with nothing built and leaves the registry as it found it.
C5_ValidationPrecedesGeometry ==
  /\ (sMode = "2D" /\ sFrame # <<>>) => RunVx * RunVx < 10000
  /\ (sMode = "3D" /\ sFrame # <<>>) => RunVx * RunVx + RunVy * RunVy < 10000
  /\ (sMode = "3D" /\ RunVx * RunVx + RunVy * RunVy >= 10000) =>
       /\ sRun.stopped
       /\ "velocity" \in sRun.errors
       /\ sFrame = <<>>
       /\ sPoints = sRun.before

\* C5 witness: 'Add Point' pressed in a 3D run at (0.6, 0.8), |v| = 1 exactly,
\* with a point already registered.
C5_Witness ==
  /\ sMode = "3D"
  /\ sRun.in.add
  /\ RunVx = 60 /\ RunVy = 80
  /\ sRun.stopped
  /\ Len(sPoints) = 1

\* The two light-cone lines x = t and x = -t over the diagram extent.
HasLightCones(frame) ==
  /\ \E i \in DOMAIN frame : frame[i].pts = LightCones[1].pts
  /\ \E i \in DOMAIN frame : frame[i].pts = LightCones[2].pts

\* C8: every rendered 2D frame contains the two unboosted light-cone lines.
C8_LightConesInEveryFrame ==
  (sMode = "2D" /\ sFrame # <<>>) => HasLightCones(sFrame)

\* The curve expression of the last run failed: the evaluator raised, or a
\* sample is not finite.
CurveFailed ==
  /\ sMode = "2D" /\ sFrame # <<>>
  /\ sRun.in.enable_curve /\ sRun.in.curve_expr # ""
  /\ \/ Raises(sRun.in.curve_expr)
     \/ \E i \in 1..100 : ~IsFinite(CurveSample(sRun.in.curve_expr, time_values[i]))

\* C9: a curve failure is reported, puts no curve in the frame, and leaves the
\* 22 grid lines, one marker per registered 2D point and the registry alone.
C9_CurveFailureIsolated ==
  CurveFailed =>
    /\ "curve" \in sRun.errors
    /\ RoleCount(sFrame, "curve") = 0
    /\ RoleCount(sFrame, "time-line") + RoleCount(sFrame, "space-line") = 22
    /\ RoleCount(sFrame, "marker") = Len(SelectSeq(sPoints, LAMBDA p : Len(p) = 3))
    /\ (~sRun.in.add => sPoints = sRun.before)

IsPrefix(s, t) == Len(s) <= Len(t) /\ \A i \in 1..Len(s) : t[i] = s[i]

\* The markers of a frame, in the frame's order.
MarkersOf(frame) == SelectSeq(frame, LAMBDA tr : tr.role = "marker")

\* C10: every run leaves the old registry as a prefix of the new one; a 2D run
\* appends only 3-tuples and a 3D run only 4-tuples; a run that renders shows
\* one marker for each tuple of its own mode's length, in insertion order, with
\* the tuple's colour at the tuple's transformed coordinates, and none for the
\* tuples of the other mode.
C10_ModeIsolation ==
  LET n == IF sMode = "2D" THEN 3 ELSE 4
      own == SelectSeq(sPoints, LAMBDA p : Len(p) = n)
      shown == MarkersOf(sFrame)
  IN  /\ IsPrefix(sRun.before, sPoints)
      /\ \A i \in (Len(sRun.before) + 1)..Len(sPoints) : Len(sPoints[i]) = n
      /\ sFrame # <<>> =>
           /\ Len(shown) = Len(own)
           /\ \A k \in 1..Len(own) :
                /\ shown[k].color = own[k][n]
                /\ IF n = 3
                   THEN LET r == lorentz_transform(own[k][2], own[k][1], RunVx)
                        IN  shown[k].pts = <<XY(r.x, r.t)>>
                   ELSE LET r == lorentz_transform_3d(own[k][3], own[k][1], own[k][2],
                                                      RunVx, RunVy)
                        IN  shown[k].pts = <<[x |-> r.x, y |-> r.y, z |-> r.t]>>

\* C10 witness: a 2D run renders the one 3-tuple of a registry that also holds
\* a 4-tuple added earlier in 3D mode.
C10_Witness ==
  /\ sMode = "2D" /\ sFrame # <<>>
  /\ Len(sPoints) = 2
  /\ Len(sPoints[1]) = 4 /\ Len(sPoints[2]) = 3
  /\ Len(MarkersOf(sFrame)) = 1

-----------------------------------------------------------------------------
\* Claims about the transform functions (SpecTransform).

\* C4: lorentz_transform with |v| >= 1, and lorentz_transform_3d with
\* vx^2 + vy^2 >= 1, end in an InvalidVelocity error and return no coordinates.
C4_InvalidVelocityRejected ==
  /\ (tPc = "called2d" /\ tArgs.v * tArgs.v >= 10000) => tRes.out = "InvalidVelocity"
  /\ (tPc = "called3d" /\ tArgs.v * tArgs.v + tArgs.v_y * tArgs.v_y >= 10000)
       => tRes.out = "InvalidVelocity"

\* C7: for |v| < 1, lorentz_transform with v and then with -v recovers (t, x)
\* exactly; lorentz_transform(t, x, 0) = (t, x).
C7_RoundTrip ==
  /\ (tPc = "back2d" /\ tArgs.v * tArgs.v < 10000) =>
       /\ tBack.t = tArgs.t
       /\ tBack.x = tArgs.x
  /\ (tPc = "called2d" /\ tArgs.v = 0) =>
       /\ tRes.t = tArgs.t
       /\ tRes.x = tArgs.x

\* C7 witness: a round trip at v = 0.5c, where gamma is irrational, of an
\* event the boost moves.
C7_Witness ==
  /\ tPc = "back2d"
  /\ tArgs.v = 50
  /\ tArgs.t = Rat(1, 1) /\ tArgs.x = Rat(1, 2)
  /\ tRes.t.g = 1
  /\ tRes.t # tArgs.t
  /\ tBack.t = tArgs.t /\ tBack.x = tArgs.x

=============================================================================
